---- MODULE Spec2Model ----
(***************************************************************************)
(* A model of the mangling rule engine of password-mangler:               *)
(*   - apply_simple_rule   (mangler_rule_optimizer.py), the interpreter;   *)
(*   - test_rule_on_words / optimize_rules (same file), the minimizer;     *)
(*   - infer_hashcat_rule  (mangler_hashcat.py), the synthesizer.          *)
(*   - learn_rules_from_passwords (same file), dictionary matching;        *)
(*   - parse_mask / estimate_mask_size / generate_from_mask                *)
(*     (mangler_mask.py), mask generation.                                 *)
(* A character is a one-character string, a word or a rule text is a       *)
(* sequence of characters.  The model covers printable ASCII, where        *)
(* Python's str.lower/upper/swapcase/isupper/islower act on A-Z and a-z    *)
(* only and never change the length of a string.                           *)
(***************************************************************************)
EXTENDS Integers, Sequences, FiniteSets, TLC

(***************************************************************************)
(* Characters                                                              *)
(***************************************************************************)

\* Printable ASCII in code-point order: AsciiChars[k] has code point 31 + k.
\* "<96>" stands for the grave accent, which a TLA+ string cannot hold.
AsciiChars ==
    <<" ", "!", "\"", "#", "$", "%", "&", "'", "(", ")", "*", "+", ",", "-", ".", "/",
      "0", "1", "2", "3", "4", "5", "6", "7", "8", "9", ":", ";", "<", "=", ">", "?",
      "@", "A", "B", "C", "D", "E", "F", "G", "H", "I", "J", "K", "L", "M", "N", "O",
      "P", "Q", "R", "S", "T", "U", "V", "W", "X", "Y", "Z", "[", "\\", "]", "^", "_",
      "<96>", "a", "b", "c", "d", "e", "f", "g", "h", "i", "j", "k", "l", "m", "n", "o",
      "p", "q", "r", "s", "t", "u", "v", "w", "x", "y", "z", "{", "|", "}", "~">>

CharSet == {AsciiChars[k] : k \in 1..Len(AsciiChars)}

\* ord(c)
Code == [c \in CharSet |-> 31 + (CHOOSE k \in 1..Len(AsciiChars) : AsciiChars[k] = c)]

\* chr(n)
Chr(n) == AsciiChars[n - 31]

IsUpperCh(c) == Code[c] >= 65 /\ Code[c] <= 90
IsLowerCh(c) == Code[c] >= 97 /\ Code[c] <= 122

LowerCh(c) == IF IsUpperCh(c) THEN Chr(Code[c] + 32) ELSE c
UpperCh(c) == IF IsLowerCh(c) THEN Chr(Code[c] - 32) ELSE c
SwapCh(c) == IF IsUpperCh(c) THEN Chr(Code[c] + 32)
             ELSE IF IsLowerCh(c) THEN Chr(Code[c] - 32) ELSE c

(***************************************************************************)
(* Python string methods on sequences of characters                        *)
(***************************************************************************)

\* s.lower()
Lower(s) == [k \in 1..Len(s) |-> LowerCh(s[k])]
\* s.upper()
Upper(s) == [k \in 1..Len(s) |-> UpperCh(s[k])]
\* s.swapcase()
SwapCase(s) == [k \in 1..Len(s) |-> SwapCh(s[k])]
\* s[::-1]
Reverse(s) == [k \in 1..Len(s) |-> s[Len(s) + 1 - k]]
\* s[a:b] for 0 <= a (Python slice, 0-based, b exclusive, clipped to len(s))
Slice(s, a, b) ==
    LET e == IF b > Len(s) THEN Len(s) ELSE b
    IN  IF a >= e THEN <<>> ELSE [k \in 1..(e - a) |-> s[a + k]]

\* s.replace(old, new) for a one-character old and a string new
RECURSIVE Replace(_, _, _)
Replace(s, old, new) ==
    IF s = <<>> THEN <<>>
    ELSE (IF Head(s) = old THEN new ELSE <<Head(s)>>) \o Replace(Tail(s), old, new)

\* s.isupper(): at least one cased character, and no lowercase one
IsUpper(s) == /\ \E k \in 1..Len(s) : IsUpperCh(s[k])
              /\ \A k \in 1..Len(s) : ~IsLowerCh(s[k])
\* s.islower(): at least one cased character, and no uppercase one
IsLower(s) == /\ \E k \in 1..Len(s) : IsLowerCh(s[k])
              /\ \A k \in 1..Len(s) : ~IsUpperCh(s[k])

\* s.find(sub): the lowest 0-based index where sub occurs in s, or -1
Find(s, sub) ==
    LET hits == {k \in 0..(Len(s) - Len(sub)) : Slice(s, k, k + Len(sub)) = sub}
    IN  IF hits = {} THEN -1 ELSE CHOOSE k \in hits : \A m \in hits : k <= m

(***************************************************************************)
(* apply_simple_rule: the rule interpreter                                 *)
(***************************************************************************)

\* The ops, one operator per branch of the elif chain.
OpIdentityToggles(result) == SwapCase(result)
OpIdentity(result) == result
OpLower(result) == Lower(result)
OpUpper(result) == Upper(result)
OpCapitalizeKeepsRest(result) ==
    IF result # <<>> THEN <<UpperCh(result[1])>> \o Tail(result) ELSE result
OpCapitalize(result) ==
    IF result # <<>> THEN <<UpperCh(result[1])>> \o Lower(Tail(result)) ELSE result
OpInvertCapitalize(result) ==
    IF result # <<>> THEN <<LowerCh(result[1])>> \o Upper(Tail(result)) ELSE result
OpToggle(result) == SwapCase(result)
OpReverse(result) == Reverse(result)
OpDuplicate(result) == result \o result
OpAppend(result, x) == Append(result, x)
OpPrepend(result, x) == <<x>> \o result
OpSubstitute(result, old_char, new_char) == Replace(result, old_char, <<new_char>>)
OpPurge(result, char_to_remove) == Replace(result, char_to_remove, <<>>)
OpDupFirstUnguarded(result) ==
    <<(IF result # <<>> THEN result[1] ELSE " ")>> \o result
OpDupFirst(result) == IF result # <<>> THEN <<result[1]>> \o result ELSE result
OpDupLast(result) == IF result # <<>> THEN Append(result, result[Len(result)]) ELSE result

\* The operand test of $, ^, @ (k = 1) and s (k = 2): i + k < len(rule).
HasOperandsShort(rule, i, k) == i + k + 1 < Len(rule)
HasOperands(rule, i, k) == i + k < Len(rule)

\* One pass of the while loop at 0-based index i of the rule text: the op
\* dispatch (an elif chain) and the final i += 1.  An op whose operand test
\* fails, and any character that is no op code, falls through every branch.
ApplyOp(result, rule, i) ==
    LET op == rule[i + 1]
    IN  IF op = ":" THEN [result |-> OpIdentity(result), i |-> i + 1]
        ELSE IF op = "l" THEN [result |-> OpLower(result), i |-> i + 1]
        ELSE IF op = "u" THEN [result |-> OpUpper(result), i |-> i + 1]
        ELSE IF op = "c" THEN [result |-> OpCapitalize(result), i |-> i + 1]
        ELSE IF op = "C" THEN [result |-> OpInvertCapitalize(result), i |-> i + 1]
        ELSE IF op = "t" THEN [result |-> OpToggle(result), i |-> i + 1]
        ELSE IF op = "r" THEN [result |-> OpReverse(result), i |-> i + 1]
        ELSE IF op = "d" THEN [result |-> OpDuplicate(result), i |-> i + 1]
        ELSE IF op = "$" /\ HasOperands(rule, i, 1) THEN
            [result |-> OpAppend(result, rule[i + 2]), i |-> i + 2]
        ELSE IF op = "^" /\ HasOperands(rule, i, 1) THEN
            [result |-> OpPrepend(result, rule[i + 2]), i |-> i + 2]
        ELSE IF op = "s" /\ HasOperands(rule, i, 2) THEN
            [result |-> OpSubstitute(result, rule[i + 2], rule[i + 3]), i |-> i + 3]
        ELSE IF op = "@" /\ HasOperands(rule, i, 1) THEN
            [result |-> OpPurge(result, rule[i + 2]), i |-> i + 2]
        ELSE IF op = "z" THEN [result |-> OpDupFirst(result), i |-> i + 1]
        ELSE IF op = "Z" THEN [result |-> OpDupLast(result), i |-> i + 1]
        ELSE [result |-> result, i |-> i + 1]

\* The while loop from index i on, to the return.
RECURSIVE ApplyLoop(_, _, _)
ApplyLoop(result, rule, i) ==
    IF i < Len(rule)
    THEN LET s == ApplyOp(result, rule, i) IN ApplyLoop(s.result, rule, s.i)
    ELSE result

\* apply_simple_rule(word, rule)
ApplySimpleRule(word, rule) == ApplyLoop(word, rule, 0)

(***************************************************************************)
(* infer_hashcat_rule: the rule synthesizer                                *)
(***************************************************************************)

\* None, where a rule text (a sequence of characters) is expected
None == <<"None">>

\* The (leet_char, orig_char) pairs of the de-leet loop, in its order
DeleetPairs ==
    <<<<"@", "a">>, <<"3", "e">>, <<"0", "o">>, <<"1", "i">>,
      <<"$", "s">>, <<"7", "t">>, <<"4", "a">>>>

\* for leet_char, orig_char in [...]: pwd_deleet = pwd_deleet.replace(...)
RECURSIVE DeleetFrom(_, _)
DeleetFrom(pwd_deleet, k) ==
    IF k > Len(DeleetPairs) THEN pwd_deleet
    ELSE DeleetFrom(Replace(pwd_deleet, DeleetPairs[k][1], <<DeleetPairs[k][2]>>), k + 1)
Deleet(pwd_lower) == DeleetFrom(pwd_lower, 1)

\* base_start: where base_lower is found in pwd_lower, else in its de-leeted
\* form, else -1
Locate(base_word, password) ==
    LET base_lower == Lower(base_word)
        pwd_lower == Lower(password)
        plain == Find(pwd_lower, base_lower)
    IN  IF plain # -1 THEN plain ELSE Find(Deleet(pwd_lower), base_lower)

\* Step 1: one ^X per character of password[:base_start], reversed
PrefixParts(password, base_start) ==
    IF base_start > 0
    THEN [k \in 1..base_start |-> <<"^", password[base_start + 1 - k]>>]
    ELSE <<>>

\* Step 2: the case op appended to rule_parts, as a list of zero or one part
CaseParts(base_word, password, base_start) ==
    LET base_lower == Lower(base_word)
        base_in_pwd == Slice(password, base_start, base_start + Len(base_word))
    IN  IF IsUpperCh(base_in_pwd[1]) /\ IsLowerCh(base_lower[1])
        THEN IF IsLower(Slice(base_in_pwd, 1, Len(base_in_pwd))) THEN <<(<<"c">>)>>
             ELSE IF IsUpper(base_in_pwd) THEN <<(<<"u">>)>>
             ELSE <<(<<"C">>)>>
        ELSE IF IsUpper(base_in_pwd) THEN <<(<<"u">>)>>
        ELSE IF IsLower(base_in_pwd) /\ IsUpper(base_word) THEN <<(<<"l">>)>>
        ELSE <<>>

\* leet_map.get((orig_char, pwd_char)): the sXY part, or None
LeetMapGet(orig_char, pwd_char) ==
    CASE orig_char = "a" /\ pwd_char = "@" -> <<"s", "a", "@">>
      [] orig_char = "a" /\ pwd_char = "4" -> <<"s", "a", "4">>
      [] orig_char = "e" /\ pwd_char = "3" -> <<"s", "e", "3">>
      [] orig_char = "i" /\ pwd_char = "1" -> <<"s", "i", "1">>
      [] orig_char = "i" /\ pwd_char = "!" -> <<"s", "i", "!">>
      [] orig_char = "o" /\ pwd_char = "0" -> <<"s", "o", "0">>
      [] orig_char = "s" /\ pwd_char = "$" -> <<"s", "s", "$">>
      [] orig_char = "s" /\ pwd_char = "5" -> <<"s", "s", "5">>
      [] orig_char = "t" /\ pwd_char = "7" -> <<"s", "t", "7">>
      [] orig_char = "l" /\ pwd_char = "1" -> <<"s", "l", "1">>
      [] OTHER -> None

InParts(part, rule_parts) == \E k \in 1..Len(rule_parts) : rule_parts[k] = part

\* Step 3: the loop over zip(base_lower, pwd_lower[base_start:base_start+len]),
\* from pair k on
RECURSIVE SubstLoop(_, _, _, _)
SubstLoop(rule_parts, base_lower, span, k) ==
    IF k > Len(base_lower) \/ k > Len(span) THEN rule_parts
    ELSE LET sub_rule == IF base_lower[k] # span[k]
                         THEN LeetMapGet(base_lower[k], span[k]) ELSE None
         IN  SubstLoop(IF sub_rule # None /\ ~InParts(sub_rule, rule_parts)
                       THEN Append(rule_parts, sub_rule) ELSE rule_parts,
                       base_lower, span, k + 1)

SubstParts(rule_parts, base_word, password, base_start) ==
    SubstLoop(rule_parts, Lower(base_word),
              Slice(Lower(password), base_start, base_start + Len(base_word)), 1)

\* Step 4: one $X per character of password[base_start + len(base_word):]
SuffixPartsReversed(base_word, password, base_start) ==
    LET from == base_start + Len(base_word)
    IN  IF Len(password) > from
        THEN [k \in 1..(Len(password) - from) |-> <<"$", password[Len(password) + 1 - k]>>]
        ELSE <<>>
SuffixParts(base_word, password, base_start) ==
    LET from == base_start + Len(base_word)
    IN  IF Len(password) > from
        THEN [k \in 1..(Len(password) - from) |-> <<"$", password[from + k]>>]
        ELSE <<>>

\* ''.join(rule_parts)
RECURSIVE Join(_)
Join(parts) == IF parts = <<>> THEN <<>> ELSE Head(parts) \o Join(Tail(parts))

\* return ''.join(rule_parts) if rule_parts else ':'
RuleOfParts(rule_parts) == IF rule_parts # <<>> THEN Join(rule_parts) ELSE <<":">>

\* infer_hashcat_rule(base_word, password)
InferHashcatRule(base_word, password) ==
    IF base_word = <<>> \/ password = <<>> THEN None
    ELSE LET base_start == Locate(base_word, password)
         IN  IF base_start = -1 THEN None
             ELSE RuleOfParts(
                      SubstParts(PrefixParts(password, base_start)
                                     \o CaseParts(base_word, password, base_start),
                                 base_word, password, base_start)
                      \o SuffixParts(base_word, password, base_start))

(***************************************************************************)
(* test_rule_on_words and optimize_rules: the rule-set minimizer           *)
(***************************************************************************)

\* a < b for two strings, as Python compares them: by code point, a proper
\* prefix first
StrLess(a, b) ==
    \E k \in 1..(Len(a) + 1) :
        /\ k <= Len(b)
        /\ \A m \in 1..(k - 1) : a[m] = b[m]
        /\ (k = Len(a) + 1 \/ Code[a[k]] < Code[b[k]])

\* The set of outputs of one rule over the test words; an empty output is
\* not added (if output: results.add(output)).
TestRuleOnWordsKeepsEmpty(rule_text, words) ==
    {ApplySimpleRule(words[k], rule_text) : k \in 1..Len(words)}
TestRuleOnWords(rule_text, words) ==
    {ApplySimpleRule(words[k], rule_text) : k \in 1..Len(words)} \ {<<>>}

\* The orders in which a set may hand out its elements (the iteration order
\* of a Python set of str is not fixed)
Orderings(S) ==
    {f \in [1..Cardinality(S) -> S] : \A a, b \in 1..Cardinality(S) : a # b => f[a] # f[b]}

\* sorted(outputs), from the elements in the order the set hands them out
RECURSIVE InsertSorted(_, _)
InsertSorted(x, sorted) ==
    IF sorted = <<>> THEN <<x>>
    ELSE IF StrLess(Head(sorted), x) THEN <<Head(sorted)>> \o InsertSorted(x, Tail(sorted))
    ELSE <<x>> \o sorted
RECURSIVE SortedFrom(_, _)
SortedFrom(listed, k) ==
    IF k > Len(listed) THEN <<>> ELSE InsertSorted(listed[k], SortedFrom(listed, k + 1))
AsListed(listed) == listed
Sorted(listed) == SortedFrom(listed, 1)

\* A dict is the sequence of its (key, value) entries in insertion order.
\* The place of a key among the entries, 0 if absent
EntryIndexMisses(entries, key) == 0
EntryIndex(entries, key) ==
    IF \E k \in 1..Len(entries) : entries[k].key = key
    THEN CHOOSE k \in 1..Len(entries) : entries[k].key = key
    ELSE 0

\* output_to_rules[outputs_tuple].append(rule), on a defaultdict(list)
AppendToGroup(groups, key, rule_text) ==
    LET at == EntryIndex(groups, key)
    IN  IF at = 0 THEN Append(groups, [key |-> key, rules |-> <<rule_text>>])
        ELSE [groups EXCEPT ![at].rules = Append(@, rule_text)]

\* rule_outputs[rule] = outputs_tuple
PutOutputs(outputs_of, rule_text, outputs_tuple) ==
    LET at == EntryIndex(outputs_of, rule_text)
    IN  IF at = 0 THEN Append(outputs_of, [key |-> rule_text, outputs |-> outputs_tuple])
        ELSE [outputs_of EXCEPT ![at].outputs = outputs_tuple]

\* The sort key (len(r), r)
KeyLessByText(r1, r2) == StrLess(r1, r2)
KeyLess(r1, r2) == Len(r1) < Len(r2) \/ (Len(r1) = Len(r2) /\ StrLess(r1, r2))

\* sorted(rules_with_same_output, key=lambda r: (len(r), r))[0]
BestRuleFirst(rules_with_same_output) == rules_with_same_output[1]
BestRule(rules_with_same_output) ==
    LET among == {rules_with_same_output[k] : k \in 1..Len(rules_with_same_output)}
    IN  CHOOSE r \in among : \A q \in among : q = r \/ KeyLess(r, q)

\* What one entry of output_to_rules adds to optimized
KeepAll(rules_with_same_output) == rules_with_same_output
KeptOf(rules_with_same_output) ==
    IF Len(rules_with_same_output) = 1 THEN <<rules_with_same_output[1]>>
    ELSE <<BestRule(rules_with_same_output)>>

\* round(num / den * 100, 1), in tenths of a percent: Python rounds the
\* float to the nearest tenth, an exact tie to the even one.
RoundTenthsDown(num, den) == (1000 * num) \div den
RoundTenths(num, den) ==
    LET t == 1000 * num
        fl == t \div den
        rem == t % den
    IN  IF 2 * rem < den THEN fl
        ELSE IF 2 * rem > den THEN fl + 1
        ELSE IF fl % 2 = 0 THEN fl ELSE fl + 1

\* The stats dict; reduction_percent in tenths of a percent
StatsOf(rule_list, kept, groups) ==
    [original_count |-> Len(rule_list),
     optimized_count |-> Len(kept),
     removed_count |-> Len(rule_list) - Len(kept),
     redundant_groups |-> Cardinality({k \in 1..Len(groups) : Len(groups[k].rules) > 1}),
     reduction_percent |->
         IF rule_list # <<>> THEN RoundTenths(Len(rule_list) - Len(kept), Len(rule_list))
         ELSE 0]

\* One pass of the first loop: the rule filed under its sorted outputs
TestOne(dicts, rule_text, outputs_tuple) ==
    [rule_outputs |-> PutOutputs(dicts.rule_outputs, rule_text, outputs_tuple),
     output_to_rules |-> AppendToGroup(dicts.output_to_rules, outputs_tuple, rule_text)]

\* for i, rule in enumerate(rules): ...   the passes lo..hi, in order, from
\* the two dicts as they are before pass lo (a stretch of several passes is
\* run as its first half, then its second half).  The value is the set of
\* what the dicts may be afterwards: one element per way the sets of outputs
\* may have handed out their elements.
RECURSIVE TestedOver(_, _, _, _, _)
TestedOver(rule_list, words, lo, hi, dicts) ==
    IF lo > hi THEN {dicts}
    ELSE IF lo = hi THEN
        {TestOne(dicts, rule_list[lo], Sorted(listed)) :
            listed \in Orderings(TestRuleOnWords(rule_list[lo], words))}
    ELSE LET mid == (lo + hi) \div 2
         IN  UNION {TestedOver(rule_list, words, mid + 1, hi, half) :
                        half \in TestedOver(rule_list, words, lo, mid, dicts)}

\* for outputs_tuple, rules_with_same_output in output_to_rules.items(): ...
\* what the entries lo..hi, in order, append to optimized
KeptOverDropsLast(groups, lo, hi) ==
    [k \in 1..(hi - lo) |-> BestRule(groups[lo + k - 1].rules)]
RECURSIVE KeptOver(_, _, _)
KeptOver(groups, lo, hi) ==
    IF lo > hi THEN <<>>
    ELSE IF lo = hi THEN KeptOf(groups[lo].rules)
    ELSE LET mid == (lo + hi) \div 2
         IN  KeptOver(groups, lo, mid) \o KeptOver(groups, mid + 1, hi)

\* ... and what they add to redundant_count
RECURSIVE RedundantOver(_, _, _)
RedundantOver(groups, lo, hi) ==
    IF lo > hi THEN 0
    ELSE IF lo = hi THEN (IF Len(groups[lo].rules) = 1 THEN 0
                          ELSE Len(groups[lo].rules) - 1)
    ELSE LET mid == (lo + hi) \div 2
         IN  RedundantOver(groups, lo, mid) + RedundantOver(groups, mid + 1, hi)

(***************************************************************************)
(* learn_rules_from_passwords (mangler_hashcat.py): dictionary matching    *)
(***************************************************************************)

\* base_word in pwd_lower
Contains(pwd_lower, base_word) == Find(pwd_lower, base_word) # -1

\* Prefer longer matches: len(base_word) > best_match_len
PrefersLater(base_len, best_match_len) == base_len >= best_match_len
Prefers(base_len, best_match_len) == base_len > best_match_len

\* for base_word in dictionary: ...   from entry k on, best holding
\* best_match and best_match_len
RECURSIVE BestMatchFrom(_, _, _, _)
BestMatchFrom(dictionary, pwd_lower, k, best) ==
    IF k > Len(dictionary) THEN best.best_match
    ELSE LET base_word == dictionary[k]
         IN  BestMatchFrom(dictionary, pwd_lower, k + 1,
                 IF Contains(pwd_lower, base_word) /\ Prefers(Len(base_word), best.best_match_len)
                 THEN [best_match |-> base_word, best_match_len |-> Len(base_word)]
                 ELSE best)

\* best_match after the loop over the dictionary, None if nothing matched
BestMatch(dictionary, password) ==
    BestMatchFrom(dictionary, Lower(password), 1, [best_match |-> None, best_match_len |-> 0])

\* rule_counter[rule] += 1, on a Counter
CountRule(rule_counter, rule) ==
    LET at == EntryIndex(rule_counter, rule)
    IN  IF at = 0 THEN Append(rule_counter, [key |-> rule, count |-> 1])
        ELSE [rule_counter EXCEPT ![at].count = @ + 1]

\* What one password does to rule_counter and matched_count
LearnedFrom(counted, password, best_match) ==
    LET rule == IF best_match # None /\ best_match # <<>>
                THEN InferHashcatRule(best_match, password) ELSE None
    IN  IF rule # None /\ rule # <<>> /\ rule # <<":">>
        THEN [rule_counter |-> CountRule(counted.rule_counter, rule),
              matched_count |-> counted.matched_count + 1]
        ELSE counted

\* Counter.most_common(n): the entries by falling count, entries of equal
\* count in insertion order, the first n of them as (rule, frequency)
RECURSIVE InsertByCount(_, _)
InsertByCount(entry, sorted) ==
    IF sorted = <<>> THEN <<entry>>
    ELSE IF Head(sorted).count >= entry.count
         THEN <<Head(sorted)>> \o InsertByCount(entry, Tail(sorted))
    ELSE <<entry>> \o sorted
RECURSIVE ByCount(_, _)
ByCount(rule_counter, k) ==
    IF k = 0 THEN <<>> ELSE InsertByCount(rule_counter[k], ByCount(rule_counter, k - 1))
MostCommon(rule_counter, n) ==
    LET sorted == ByCount(rule_counter, Len(rule_counter))
        m == IF n < 0 THEN 0 ELSE IF n > Len(sorted) THEN Len(sorted) ELSE n
    IN  [k \in 1..m |-> <<sorted[k].key, sorted[k].count>>]

(***************************************************************************)
(* mangler_mask.py: parse_mask, estimate_mask_size, generate_from_mask     *)
(***************************************************************************)

\* What a raised ValueError leaves in place of a value
ValueError == <<"ValueError">>

\* The string s of DEFAULT_CHARSETS: every printable character that is no
\* letter and no digit
SpecialChars ==
    <<"!", "@", "#", "$", "%", "^", "&", "*", "(", ")", "-", "_", "=", "+", "[", "]",
      "{", "}", "|", ";", ":", ",", ".", "<", ">", "?", "/", "\\", "<96>", "~", "\"",
      "'", " ">>

\* DEFAULT_CHARSETS; a is l + u + d + s, computed when first asked for;
\* "<0>" .. "<15>" stand for the characters \x00 .. \x0f of b
DEFAULT_CHARSETS ==
    LET l == [k \in 1..26 |-> Chr(96 + k)]
        u == [k \in 1..26 |-> Chr(64 + k)]
        d == [k \in 1..10 |-> Chr(47 + k)]
    IN  [c \in {"l", "u", "d", "s", "a", "h", "H", "b"} |->
            CASE c = "l" -> l
              [] c = "u" -> u
              [] c = "d" -> d
              [] c = "s" -> SpecialChars
              [] c = "a" -> l \o u \o d \o SpecialChars
              [] c = "h" -> d \o SubSeq(l, 1, 6)
              [] c = "H" -> d \o SubSeq(u, 1, 6)
              [] c = "b" -> <<"<0>", "<1>", "<2>", "<3>", "<4>", "<5>", "<6>", "<7>",
                              "<8>", "<9>", "<10>", "<11>", "<12>", "<13>", "<14>", "<15>">>]

\* _get_charset: a custom charset first, then a default one, else ValueError.
\* custom_charsets is the sequence of its (key, value) entries; an empty or
\* absent dict is the empty sequence.
GetCharset(charset_code, custom_charsets) ==
    IF EntryIndex(custom_charsets, charset_code) # 0
    THEN custom_charsets[EntryIndex(custom_charsets, charset_code)].value
    ELSE IF charset_code \in DOMAIN DEFAULT_CHARSETS THEN DEFAULT_CHARSETS[charset_code]
    ELSE ValueError

\* parse_mask: the loop from position i on (0-based).  The value says
\* whether ValueError was raised, and holds the list returned if not.
RECURSIVE ParseFrom(_, _, _, _)
ParseFrom(mask, custom_charsets, i, result) ==
    IF i >= Len(mask) THEN [raised |-> FALSE, result |-> result]
    ELSE IF mask[i + 1] = "?"
         THEN IF i + 1 >= Len(mask) THEN [raised |-> TRUE, result |-> <<>>]
              ELSE LET charset == GetCharset(mask[i + 2], custom_charsets)
                   IN  IF charset = ValueError THEN [raised |-> TRUE, result |-> <<>>]
                       ELSE ParseFrom(mask, custom_charsets, i + 2,
                                      Append(result, [typ |-> "dynamic", value |-> charset]))
    ELSE ParseFrom(mask, custom_charsets, i + 1,
                   Append(result, [typ |-> "static", value |-> <<mask[i + 1]>>]))
ParseMask(mask, custom_charsets) == ParseFrom(mask, custom_charsets, 0, <<>>)

\* size *= len(value) for the dynamic entries from k on
RECURSIVE SizeFrom(_, _)
SizeFrom(parsed, k) ==
    IF k > Len(parsed) THEN 1
    ELSE (IF parsed[k].typ = "dynamic" THEN Len(parsed[k].value) ELSE 1) * SizeFrom(parsed, k + 1)

\* estimate_mask_size
EstimateMaskSize(mask, custom_charsets) ==
    LET parsed == ParseMask(mask, custom_charsets)
    IN  IF parsed.raised THEN ValueError ELSE SizeFrom(parsed.result, 1)

\* dynamic_positions: the places of the dynamic entries, in order
DynamicPositions(parsed) ==
    SelectSeq([k \in 1..Len(parsed) |-> k], LAMBDA k : parsed[k].typ = "dynamic")

\* charsets = [charset for _, charset in dynamic_positions]
Charsets(parsed) ==
    LET dynamic_positions == DynamicPositions(parsed)
    IN  [j \in 1..Len(dynamic_positions) |-> parsed[dynamic_positions[j]].value]

\* itertools.product(*charsets), as the place (1-based) it is at in every
\* charset; Exhausted when it has no further combination
Exhausted == <<0>>
FirstIndices(charsets) ==
    IF \E j \in 1..Len(charsets) : charsets[j] = <<>> THEN Exhausted
    ELSE [j \in 1..Len(charsets) |-> 1]
NextIndices(charsets, indices) ==
    LET open == {j \in 1..Len(charsets) : indices[j] < Len(charsets[j])}
    IN  IF open = {} THEN Exhausted
        ELSE LET turn == CHOOSE j \in open : \A m \in open : m <= j
             IN  [j \in 1..Len(charsets) |->
                     IF j < turn THEN indices[j]
                     ELSE IF j = turn THEN indices[j] + 1 ELSE 1]

\* if max_passwords and count >= max_passwords: break   (max_passwords is 0
\* where the code has None or 0: both mean no limit)
ReachedLimitLate(count, max_passwords) == max_passwords # 0 /\ count > max_passwords
ReachedLimit(count, max_passwords) == max_passwords # 0 /\ count >= max_passwords

\* password = static_chars.copy(); password[pos] = char ...; ''.join(password)
PasswordAt(parsed, indices) ==
    LET dynamic_positions == DynamicPositions(parsed)
    IN  [pos \in 1..Len(parsed) |->
            IF parsed[pos].typ = "static" THEN parsed[pos].value[1]
            ELSE LET j == CHOOSE j \in 1..Len(dynamic_positions) : dynamic_positions[j] = pos
                 IN  parsed[pos].value[indices[j]]]

(***************************************************************************)
(* optimize_rule_file: a file is the sequence of its lines, each line the  *)
(* sequence of its characters without the line terminator, which           *)
(* str.strip() removes and str.startswith('#') does not look at            *)
(***************************************************************************)

\* The whitespace of the lines modelled
Whitespace == {" "}

\* s.strip()
RECURSIVE LStrip(_)
LStrip(s) == IF s # <<>> /\ s[1] \in Whitespace THEN LStrip(Tail(s)) ELSE s
RECURSIVE RStrip(_)
RStrip(s) ==
    IF s # <<>> /\ s[Len(s)] \in Whitespace THEN RStrip(SubSeq(s, 1, Len(s) - 1)) ELSE s
Strip(s) == RStrip(LStrip(s))

\* line.startswith('#')
StartsWithHash(line) == line # <<>> /\ line[1] = "#"

\* [line.strip() for line in f if line.strip() and not line.startswith('#')]
RECURSIVE LoadRules(_)
LoadRules(lines) ==
    IF lines = <<>> THEN <<>>
    ELSE LET line == Head(lines)
         IN  IF Strip(line) # <<>> /\ ~StartsWithHash(line)
             THEN <<Strip(line)>> \o LoadRules(Tail(lines))
             ELSE LoadRules(Tail(lines))

\* [line.strip() for line in f if line.strip()][:1000]
MaxTestWords == 1000
RECURSIVE StrippedLines(_)
StrippedLines(lines) ==
    IF lines = <<>> THEN <<>>
    ELSE IF Strip(Head(lines)) # <<>>
         THEN <<Strip(Head(lines))>> \o StrippedLines(Tail(lines))
         ELSE StrippedLines(Tail(lines))
LoadTestWords(lines) ==
    LET stripped == StrippedLines(lines)
    IN  IF Len(stripped) > MaxTestWords THEN SubSeq(stripped, 1, MaxTestWords) ELSE stripped

\* str(n) of an int n >= 0
DigitChars == <<"0", "1", "2", "3", "4", "5", "6", "7", "8", "9">>
RECURSIVE StrInt(_)
StrInt(n) ==
    IF n < 10 THEN <<DigitChars[n + 1]>>
    ELSE StrInt(n \div 10) \o <<DigitChars[(n % 10) + 1]>>

\* str(stats['reduction_percent']): the int 0 of an empty rule list, else a
\* float with one decimal (the model keeps it in tenths)
StrPercent(file_stats) ==
    IF file_stats.original_count = 0 THEN <<"0">>
    ELSE StrInt(file_stats.reduction_percent \div 10) \o <<".">>
         \o StrInt(file_stats.reduction_percent % 10)

\* The five f.write of the comment block
HeaderLines(file_stats) ==
    <<<<"#", " ", "O", "p", "t", "i", "m", "i", "z", "e", "d", " ", "H", "a", "s", "h", "c", "a", "t", " ", "R", "u", "l", "e", "s">>,
      <<"#", " ", "O", "r", "i", "g", "i", "n", "a", "l", ":", " ">> \o StrInt(file_stats.original_count) \o <<" ", "r", "u", "l", "e", "s">>,
      <<"#", " ", "O", "p", "t", "i", "m", "i", "z", "e", "d", ":", " ">> \o StrInt(file_stats.optimized_count) \o <<" ", "r", "u", "l", "e", "s">>,
      <<"#", " ", "R", "e", "m", "o", "v", "e", "d", ":", " ">> \o StrInt(file_stats.removed_count) \o <<" ", "r", "e", "d", "u", "n", "d", "a", "n", "t", " ", "r", "u", "l", "e", "s", " ", "(">>
          \o StrPercent(file_stats) \o <<"%", " ", "r", "e", "d", "u", "c", "t", "i", "o", "n", ")">>,
      <<"#">>>>

\* The lines written: the comment block, then rule + '\n' per rule
WrittenLines(kept, file_stats) == HeaderLines(file_stats) \o kept

(***************************************************************************)
(* State                                                                   *)
(***************************************************************************)

VARIABLES
    \* apply_simple_rule: its arguments, its locals and where the call is
    word, rule, result, i, pc,
    \* infer_hashcat_rule: its arguments, its locals, where the call is, the
    \* value it returned, and what executing that value on base_word gave
    base_word, password, base_start, rule_parts, infer_pc, inferred, reproduced,
    \* the rule program password was made with from base_word, or None
    program,
    \* optimize_rules: its arguments, its locals and where the call is
    rules, test_words, rule_outputs, output_to_rules, optimized, redundant_count,
    stats, opt_pc,
    \* what the call before this one returned for the same arguments
    earlier,
    \* learn_rules_from_passwords: its arguments, its locals (learn_k passwords
    \* are done), where the call is and the value it returned
    passwords, dictionary, max_rules, learn_k, best_match, rule_counter,
    matched_count, top_rules, learn_pc,
    \* generate_from_mask: its arguments, its locals, the place of
    \* itertools.product, the passwords yielded so far and where the call is
    mask, custom_charsets, max_passwords, parsed, total_size, indices, count,
    yielded, mask_pc,
    \* optimize_rule_file: the lines of the files at input_file, test_wordlist
    \* and output_file, where the call is, and the rules read back from
    \* output_file
    input_file, test_wordlist, output_file, file_pc, reloaded

applyVars == <<word, rule, result, i, pc>>
inferVars == <<base_word, password, base_start, rule_parts, infer_pc, inferred,
               reproduced, program>>
optVars == <<rules, test_words, rule_outputs, output_to_rules, optimized,
             redundant_count, stats, opt_pc, earlier>>
learnVars == <<passwords, dictionary, max_rules, learn_k, best_match, rule_counter,
               matched_count, top_rules, learn_pc>>
maskVars == <<mask, custom_charsets, max_passwords, parsed, total_size, indices,
              count, yielded, mask_pc>>
fileVars == <<input_file, test_wordlist, output_file, file_pc, reloaded>>
vars == <<applyVars, inferVars, optVars, learnVars, maskVars, fileVars>>

\* The state of a component that is not in use
ApplyIdle ==
    word = <<>> /\ rule = <<>> /\ result = <<>> /\ i = 0 /\ pc = "idle"
InferIdle ==
    /\ base_word = <<>> /\ password = <<>> /\ base_start = -1 /\ rule_parts = <<>>
    /\ infer_pc = "idle" /\ inferred = None /\ reproduced = None /\ program = None
NoStats ==
    [original_count |-> 0, optimized_count |-> 0, removed_count |-> 0,
     redundant_groups |-> 0, reduction_percent |-> 0]
NoReturn == [optimized |-> <<None>>, stats |-> NoStats, rules |-> <<None>>]
OptIdle ==
    /\ rules = <<>> /\ test_words = <<>> /\ rule_outputs = <<>>
    /\ output_to_rules = <<>> /\ optimized = <<>>
    /\ redundant_count = 0 /\ stats = NoStats /\ opt_pc = "idle" /\ earlier = NoReturn

LearnIdle ==
    /\ passwords = <<>> /\ dictionary = <<>> /\ max_rules = 0 /\ learn_k = 0
    /\ best_match = None /\ rule_counter = <<>> /\ matched_count = 0
    /\ top_rules = None /\ learn_pc = "idle"
MaskIdle ==
    /\ mask = <<>> /\ custom_charsets = <<>> /\ max_passwords = 0 /\ parsed = <<>>
    /\ total_size = 0 /\ indices = Exhausted /\ count = 0 /\ yielded = <<>>
    /\ mask_pc = "idle"
FileIdle ==
    /\ input_file = <<>> /\ test_wordlist = <<>> /\ output_file = None
    /\ file_pc = "idle" /\ reloaded = None

(***************************************************************************)
(* The interpreter's inputs                                                *)
(***************************************************************************)

MaxWordLen == 2
MaxOps == 2

SeqsUpTo(S, n) == UNION {[1..k -> S] : k \in 0..n}

WordChars == {"a", "B", "1"}
ExampleWords == {<<"p", "a", "s", "s", "w", "o", "r", "d">>, <<"A", "D", "M", "I", "N">>}
Words == SeqsUpTo(WordChars, MaxWordLen) \cup ExampleWords

NullaryOps == {":", "l", "u", "c", "C", "t", "r", "d", "z", "Z"}
OperandChars == {"a", "B", "1"}

\* Every rule text of one op
SingleOpTexts ==
    {<<o>> : o \in NullaryOps}
    \cup {<<o, x>> : o \in {"$", "^", "@"}, x \in OperandChars}
    \cup {<<"s", x, y>> : x \in OperandChars, y \in OperandChars}

\* The ops that rule texts of several ops are built from
ComposeTokens ==
    {<<"c">>, <<"u">>, <<"r">>, <<"d">>, <<"$", "1">>, <<"^", "B">>,
     <<"s", "a", "B">>, <<"@", "a">>}

RECURSIVE Programs(_)
Programs(n) ==
    IF n = 0 THEN {<<>>}
    ELSE Programs(n - 1) \cup {p \o t : p \in Programs(n - 1), t \in ComposeTokens}

\* Rule texts with a character that is no op code, or with an op cut short
BadTails == {<<"q">>, <<"$">>, <<"^">>, <<"@">>, <<"s">>, <<"s", "a">>, <<"s", "l">>}
IllFormedTexts ==
    {p \o b : p \in Programs(1), b \in BadTails}
    \cup {<<"q">> \o p : p \in Programs(1)}

ExampleRules == {<<"c", "$", "1", "$", "2", "$", "3">>, <<"d", "d", "d", "d", "d">>}

RuleTexts == Programs(MaxOps) \cup SingleOpTexts \cup IllFormedTexts \cup ExampleRules

(***************************************************************************)
(* apply_simple_rule as a state machine: one action per pass of the loop   *)
(***************************************************************************)

InitApply ==
    /\ word \in Words
    /\ rule \in RuleTexts
    /\ result = word
    /\ i = 0
    /\ pc = "loop"
    /\ InferIdle
    /\ OptIdle
    /\ LearnIdle
    /\ MaskIdle
    /\ FileIdle

\* while i < len(rule): one op
ApplyStep ==
    /\ pc = "loop"
    /\ i < Len(rule)
    /\ LET s == ApplyOp(result, rule, i)
       IN  /\ result' = s.result
           /\ i' = s.i
    /\ UNCHANGED <<word, rule, pc, inferVars, optVars,
                   learnVars, maskVars, fileVars>>

\* return result
ApplyReturn ==
    /\ pc = "loop"
    /\ i >= Len(rule)
    /\ pc' = "returned"
    /\ UNCHANGED <<word, rule, result, i, inferVars, optVars,
                   learnVars, maskVars, fileVars>>

NextApply == ApplyStep \/ ApplyReturn

SpecApply == InitApply /\ [][NextApply]_vars

(***************************************************************************)
(* The synthesizer's inputs                                                *)
(***************************************************************************)

MaxBaseLen == 2

BaseChars == {"a", "s", "B"}
InferBases == SeqsUpTo(BaseChars, MaxBaseLen)

\* The leet characters written for a letter
LeetOf(c) ==
    CASE c = "a" -> {"@", "4"}
      [] c = "s" -> {"$", "5"}
      [] c = "i" -> {"1", "!"}
      [] OTHER -> {}

\* What a password may hold where the base word holds c
CharVariants(c) == {c, SwapCh(c)} \cup LeetOf(LowerCh(c))
VariantChars == UNION {CharVariants(c) : c \in BaseChars}
BaseVariants(base) ==
    {v \in [1..Len(base) -> VariantChars] : \A k \in 1..Len(base) : v[k] \in CharVariants(base[k])}

Prefixes == {<<>>, <<"1">>, <<"x", "A">>}
Suffixes == {<<>>, <<"1">>, <<"!", "a">>}
Unrelated == {<<>>, <<"z">>, <<"z", "4", "z">>}

\* Passwords around a base word: an affixed variant of it, or something else
PasswordsFor(base) ==
    {pre \o v \o suf : pre \in Prefixes, v \in BaseVariants(base), suf \in Suffixes}
    \cup Unrelated

ExamplePairs ==
    {<<(<<"a", "d", "m", "i", "n">>),
       (<<"A", "d", "m", "i", "n", "2", "0", "2", "4", "!">>)>>}

\* Rule programs of case ops, single-character substitutions and affixes
InferTokens ==
    {<<"l">>, <<"u">>, <<"c">>, <<"C">>, <<"s", "a", "@">>, <<"s", "a", "s">>,
     <<"$", "1">>, <<"^", "1">>}
RECURSIVE InferPrograms(_)
InferPrograms(n) ==
    IF n = 0 THEN {<<>>}
    ELSE InferPrograms(n - 1)
         \cup {p \o t : p \in InferPrograms(n - 1), t \in InferTokens}

(***************************************************************************)
(* infer_hashcat_rule as a state machine: one action per step of the       *)
(* function, and the execution of the rule it returned                     *)
(***************************************************************************)

InitInfer ==
    /\ \/ /\ base_word \in InferBases
          /\ password \in PasswordsFor(base_word)
          /\ program = None
       \/ /\ \E pair \in ExamplePairs : base_word = pair[1] /\ password = pair[2]
          /\ program = None
       \/ /\ base_word \in InferBases \ {<<>>}
          /\ program \in InferPrograms(MaxOps)
          /\ password = ApplySimpleRule(base_word, program)
    /\ base_start = -1
    /\ rule_parts = <<>>
    /\ infer_pc = "locate"
    /\ inferred = None
    /\ reproduced = None
    /\ ApplyIdle
    /\ OptIdle
    /\ LearnIdle
    /\ MaskIdle
    /\ FileIdle

\* The argument test and the search for base_lower (return None if absent)
InferLocate ==
    /\ infer_pc = "locate"
    /\ IF base_word = <<>> \/ password = <<>>
       THEN /\ inferred' = None
            /\ infer_pc' = "returned"
            /\ UNCHANGED base_start
       ELSE /\ base_start' = Locate(base_word, password)
            /\ IF base_start' = -1
               THEN inferred' = None /\ infer_pc' = "returned"
               ELSE inferred' = inferred /\ infer_pc' = "prefix"
    /\ UNCHANGED <<base_word, password, rule_parts, reproduced, program, applyVars, optVars,
                   learnVars, maskVars, fileVars>>

\* Step 1: Handle prefix
InferPrefix ==
    /\ infer_pc = "prefix"
    /\ rule_parts' = rule_parts \o PrefixParts(password, base_start)
    /\ infer_pc' = "case"
    /\ UNCHANGED <<base_word, password, base_start, inferred, reproduced, program, applyVars, optVars,
                   learnVars, maskVars, fileVars>>

\* Step 2: Handle case changes
InferCase ==
    /\ infer_pc = "case"
    /\ rule_parts' = rule_parts \o CaseParts(base_word, password, base_start)
    /\ infer_pc' = "subst"
    /\ UNCHANGED <<base_word, password, base_start, inferred, reproduced, program, applyVars, optVars,
                   learnVars, maskVars, fileVars>>

\* Step 3: Character substitutions
InferSubst ==
    /\ infer_pc = "subst"
    /\ rule_parts' = SubstParts(rule_parts, base_word, password, base_start)
    /\ infer_pc' = "suffix"
    /\ UNCHANGED <<base_word, password, base_start, inferred, reproduced, program, applyVars, optVars,
                   learnVars, maskVars, fileVars>>

\* Step 4: Handle suffix
InferSuffix ==
    /\ infer_pc = "suffix"
    /\ rule_parts' = rule_parts \o SuffixParts(base_word, password, base_start)
    /\ infer_pc' = "join"
    /\ UNCHANGED <<base_word, password, base_start, inferred, reproduced, program, applyVars, optVars,
                   learnVars, maskVars, fileVars>>

\* Combine all parts into a single rule and return it
InferReturn ==
    /\ infer_pc = "join"
    /\ inferred' = RuleOfParts(rule_parts)
    /\ infer_pc' = "returned"
    /\ UNCHANGED <<base_word, password, base_start, rule_parts, reproduced, program, applyVars, optVars,
                   learnVars, maskVars, fileVars>>

\* The caller executes the inferred rule on the base word
ExecuteInferred ==
    /\ infer_pc = "returned"
    /\ inferred # None
    /\ reproduced' = ApplySimpleRule(base_word, inferred)
    /\ infer_pc' = "executed"
    /\ UNCHANGED <<base_word, password, base_start, rule_parts, inferred, program, applyVars, optVars,
                   learnVars, maskVars, fileVars>>

NextInfer ==
    \/ InferLocate \/ InferPrefix \/ InferCase \/ InferSubst \/ InferSuffix
    \/ InferReturn \/ ExecuteInferred

SpecInfer == InitInfer /\ [][NextInfer]_vars

(***************************************************************************)
(* The minimizer's inputs                                                  *)
(***************************************************************************)

MaxRules == 3

RulePool ==
    {<<":">>, <<"r">>, <<"c">>, <<"$", "1">>, <<":", "$", "1">>, <<"@", "a">>}
RuleLists == SeqsUpTo(RulePool, MaxRules)

Samples ==
    {<<>>,
     <<(<<"a", "b">>)>>,
     <<(<<"a", "b">>), (<<"b", "a">>)>>,
     <<(<<"a">>), (<<"a", "b">>)>>,
     <<(<<"b">>), (<<"a", "1">>), (<<"a", "b">>)>>}

\* The scenario of the specification: seven rules over 'test' and 'abc'
ScenarioRules ==
    <<(<<":">>), (<<"c">>), (<<"l">>), (<<"u">>), (<<"$", "1", "$", "2", "$", "3">>),
      (<<":", "$", "1", "$", "2", "$", "3">>), (<<"c", "$", "1", "$", "2", "$", "3">>)>>
ScenarioSample == <<(<<"t", "e", "s", "t">>), (<<"a", "b", "c">>)>>

\* 2001 rules over the sample 'a': 2000 rules $X$Y with pairwise different
\* outputs, and the first of them once more
ManyChars == SubSeq(AsciiChars, 2, 46)
ManyRules ==
    [k \in 1..2001 |->
        LET n == (k - 1) % 2000
        IN  <<"$", ManyChars[(n \div 45) + 1], "$", ManyChars[(n % 45) + 1]>>]
ManySample == <<(<<"a">>)>>

\* Calls (rules, test_words) with rule texts outside RulePool: a text with
\* an unknown op code, texts whose lengths and numbers of ops rank them
\* differently, and a purge that empties a sample word
CornerCalls ==
    {<<(<<(<<":">>), (<<"q">>)>>), (<<(<<"a", "b">>)>>)>>,
     <<(<<(<<"s", "a", "a">>), (<<":", ":">>)>>), (<<(<<"a", "b">>)>>)>>,
     <<(<<(<<"r">>), (<<"@", "a">>)>>), (<<(<<"b">>)>>)>>,
     <<(<<(<<"r">>), (<<"q">>)>>), (<<(<<"a", "a">>)>>)>>,
     <<(<<(<<"@", "a">>), (<<"s", "a", "b">>)>>), (<<(<<"a">>), (<<"b">>)>>)>>}

(***************************************************************************)
(* optimize_rules as a state machine: one action per loop, the return, and *)
(* a repeated call with the same arguments                                 *)
(***************************************************************************)

InitOpt ==
    /\ \/ rules \in RuleLists /\ test_words \in Samples
       \/ rules = ScenarioRules /\ test_words = ScenarioSample
       \/ \E call \in CornerCalls : rules = call[1] /\ test_words = call[2]
    /\ rule_outputs = <<>>
    /\ output_to_rules = <<>>
    /\ optimized = <<>>
    /\ redundant_count = 0
    /\ stats = NoStats
    /\ opt_pc = "test"
    /\ earlier = NoReturn
    /\ ApplyIdle
    /\ InferIdle
    /\ LearnIdle
    /\ MaskIdle
    /\ FileIdle

InitOptLarge ==
    /\ rules = ManyRules /\ test_words = ManySample
    /\ rule_outputs = <<>>
    /\ output_to_rules = <<>>
    /\ optimized = <<>>
    /\ redundant_count = 0
    /\ stats = NoStats
    /\ opt_pc = "test"
    /\ earlier = NoReturn
    /\ ApplyIdle
    /\ InferIdle
    /\ LearnIdle
    /\ MaskIdle
    /\ FileIdle

\* The first loop: every rule is tested and filed under its outputs
OptTestRules ==
    /\ opt_pc = "test"
    /\ \E dicts \in TestedOver(rules, test_words, 1, Len(rules),
                               [rule_outputs |-> <<>>, output_to_rules |-> <<>>]) :
           /\ rule_outputs' = dicts.rule_outputs
           /\ output_to_rules' = dicts.output_to_rules
    /\ opt_pc' = "select"
    /\ UNCHANGED <<rules, test_words, optimized, redundant_count, stats, earlier,
                   applyVars, inferVars,
                   learnVars, maskVars, fileVars>>

\* The second loop: one rule is kept per entry of output_to_rules
OptSelectRulesInPlace ==
    /\ opt_pc = "select"
    /\ optimized' = KeptOver(output_to_rules, 1, Len(output_to_rules))
    /\ rules' = optimized'
    /\ redundant_count' = RedundantOver(output_to_rules, 1, Len(output_to_rules))
    /\ opt_pc' = "stats"
    /\ UNCHANGED <<test_words, rule_outputs, output_to_rules, stats, earlier,
                   applyVars, inferVars,
                   learnVars, maskVars, fileVars>>
OptSelectRules ==
    /\ opt_pc = "select"
    /\ optimized' = KeptOver(output_to_rules, 1, Len(output_to_rules))
    /\ redundant_count' = RedundantOver(output_to_rules, 1, Len(output_to_rules))
    /\ opt_pc' = "stats"
    /\ UNCHANGED <<rules, test_words, rule_outputs, output_to_rules, stats, earlier,
                   applyVars, inferVars,
                   learnVars, maskVars, fileVars>>

\* stats = {...}; return optimized, stats
OptReturn ==
    /\ opt_pc = "stats"
    /\ stats' = StatsOf(rules, optimized, output_to_rules)
    /\ opt_pc' = "returned"
    /\ UNCHANGED <<rules, test_words, rule_outputs, output_to_rules, optimized,
                   redundant_count, earlier, applyVars, inferVars,
                   learnVars, maskVars, fileVars>>

\* The caller keeps what was returned and calls again with the same arguments
OptCallAgain ==
    /\ opt_pc = "returned"
    /\ earlier = NoReturn
    /\ earlier' = [optimized |-> optimized, stats |-> stats, rules |-> rules]
    /\ rule_outputs' = <<>>
    /\ output_to_rules' = <<>>
    /\ optimized' = <<>>
    /\ redundant_count' = 0
    /\ stats' = NoStats
    /\ opt_pc' = "test"
    /\ UNCHANGED <<rules, test_words, applyVars, inferVars,
                   learnVars, maskVars, fileVars>>

NextOpt == OptTestRules \/ OptSelectRules \/ OptReturn \/ OptCallAgain

SpecOpt == InitOpt /\ [][NextOpt]_vars
SpecOptLarge == (InitOpt \/ InitOptLarge) /\ [][NextOpt]_vars

\* The orders a list can be put in
Permuted(listed) ==
    {[k \in 1..Len(listed) |-> listed[f[k]]] : f \in Orderings(1..Len(listed))}

\* The caller keeps what was returned and calls again with the list returned
\* as the rules, and the same sample
OptCallOnOutput ==
    /\ opt_pc = "returned"
    /\ earlier = NoReturn
    /\ earlier' = [optimized |-> optimized, stats |-> stats, rules |-> rules]
    /\ rules' = optimized
    /\ rule_outputs' = <<>>
    /\ output_to_rules' = <<>>
    /\ optimized' = <<>>
    /\ redundant_count' = 0
    /\ stats' = NoStats
    /\ opt_pc' = "test"
    /\ UNCHANGED <<test_words, applyVars, inferVars, learnVars, maskVars, fileVars>>

\* The caller keeps what was returned and calls again with the same rules in
\* another order, and the same sample (lists of up to MaxRules rules)
OptCallPermuted ==
    /\ opt_pc = "returned"
    /\ earlier = NoReturn
    /\ Len(rules) <= MaxRules
    /\ earlier' = [optimized |-> optimized, stats |-> stats, rules |-> rules]
    /\ rules' \in Permuted(rules) \ {rules}
    /\ rule_outputs' = <<>>
    /\ output_to_rules' = <<>>
    /\ optimized' = <<>>
    /\ redundant_count' = 0
    /\ stats' = NoStats
    /\ opt_pc' = "test"
    /\ UNCHANGED <<test_words, applyVars, inferVars, learnVars, maskVars, fileVars>>

NextOptRerun ==
    \/ OptTestRules \/ OptSelectRules \/ OptReturn
    \/ OptCallOnOutput \/ OptCallPermuted

SpecOptRerun == InitOpt /\ [][NextOptRerun]_vars

(***************************************************************************)
(* learn_rules_from_passwords as a state machine: one action per password  *)
(* of the corpus, then the summary and the return                          *)
(***************************************************************************)

MaxCorpus == 2

Corpus ==
    {<<"a", "b", "c">>, <<"A", "B", "c", "1">>, <<"A", "b", "c">>, <<"a", "b">>,
     <<"x", "y", "z">>}
CorpusLists == SeqsUpTo(Corpus, MaxCorpus)

Dictionaries ==
    {<<>>,
     <<(<<"a", "b">>)>>,
     <<(<<"a", "b">>), (<<"b", "c">>)>>,
     <<(<<"b", "c">>), (<<"a", "b">>)>>,
     <<(<<"a", "b">>), (<<"a", "b", "c">>)>>,
     <<(<<"a", "b", "c">>), (<<"b", "c">>)>>,
     <<(<<"A", "b">>)>>,
     <<(<<"A", "b", "c">>), (<<"b", "c">>)>>}

MaxRulesChoices == {1, 5000}

InitLearn ==
    /\ passwords \in CorpusLists
    /\ dictionary \in Dictionaries
    /\ max_rules \in MaxRulesChoices
    /\ learn_k = 0
    /\ best_match = None
    /\ rule_counter = <<>>
    /\ matched_count = 0
    /\ top_rules = None
    /\ learn_pc = "loop"
    /\ ApplyIdle
    /\ InferIdle
    /\ OptIdle
    /\ MaskIdle
    /\ FileIdle

\* for password in passwords: one pass
LearnPassword ==
    /\ learn_pc = "loop"
    /\ learn_k < Len(passwords)
    /\ learn_k' = learn_k + 1
    /\ LET pwd == passwords[learn_k + 1]
       IN  IF Len(pwd) < 3
           THEN UNCHANGED <<best_match, rule_counter, matched_count>>
           ELSE /\ best_match' = BestMatch(dictionary, pwd)
                /\ LET counted == LearnedFrom([rule_counter |-> rule_counter,
                                               matched_count |-> matched_count],
                                              pwd, best_match')
                   IN  /\ rule_counter' = counted.rule_counter
                       /\ matched_count' = counted.matched_count
    /\ UNCHANGED <<passwords, dictionary, max_rules, top_rules, learn_pc,
                   applyVars, inferVars, optVars, maskVars, fileVars>>

\* The summary lines (matched_count*100/len(passwords) divides by zero for an
\* empty corpus) and return rule_counter.most_common(max_rules)
LearnReturn ==
    /\ learn_pc = "loop"
    /\ learn_k = Len(passwords)
    /\ IF Len(passwords) = 0
       THEN learn_pc' = "raised" /\ UNCHANGED top_rules
       ELSE learn_pc' = "returned" /\ top_rules' = MostCommon(rule_counter, max_rules)
    /\ UNCHANGED <<passwords, dictionary, max_rules, learn_k, best_match, rule_counter,
                   matched_count, applyVars, inferVars, optVars, maskVars, fileVars>>

NextLearn == LearnPassword \/ LearnReturn

SpecLearn == InitLearn /\ [][NextLearn]_vars

(***************************************************************************)
(* generate_from_mask as a state machine: the code up to the loop, one     *)
(* action per password yielded, and the end of the generator               *)
(***************************************************************************)

MaxMaskLen == 4

MaskChars == {"?", "1", "d", "x"}
ExampleMasks ==
    {<<"?", "l", "?", "l", "?", "d", "?", "d">>, <<"?", "1", "?", "1", "?", "d">>}

CustomCharsets ==
    {<<>>,
     <<[key |-> "1", value |-> <<"a", "b", "c">>]>>,
     <<[key |-> "1", value |-> <<>>]>>,
     <<[key |-> "1", value |-> <<"a", "a">>], [key |-> "d", value |-> <<"x", "y">>]>>}

Limits == {0, 1, 2, 18, 20}

\* The example masks are generated under a limit only: without one ?l?l?d?d
\* yields 67600 passwords
InitMask ==
    /\ \/ mask \in SeqsUpTo(MaskChars, MaxMaskLen) /\ max_passwords \in Limits
       \/ mask \in ExampleMasks /\ max_passwords \in Limits \ {0}
    /\ custom_charsets \in CustomCharsets
    /\ parsed = <<>>
    /\ total_size = 0
    /\ indices = Exhausted
    /\ count = 0
    /\ yielded = <<>>
    /\ mask_pc = "start"
    /\ ApplyIdle
    /\ InferIdle
    /\ OptIdle
    /\ LearnIdle
    /\ FileIdle

\* parse_mask and estimate_mask_size (a ValueError ends the generator), then
\* the split into dynamic_positions and static_chars
MaskStart ==
    /\ mask_pc = "start"
    /\ IF ParseMask(mask, custom_charsets).raised
       THEN /\ mask_pc' = "raised"
            /\ UNCHANGED <<parsed, total_size, indices>>
       ELSE /\ parsed' = ParseMask(mask, custom_charsets).result
            /\ total_size' = EstimateMaskSize(mask, custom_charsets)
            /\ IF DynamicPositions(parsed') = <<>>
               THEN mask_pc' = "static" /\ UNCHANGED indices
               ELSE mask_pc' = "product" /\ indices' = FirstIndices(Charsets(parsed'))
    /\ UNCHANGED <<mask, custom_charsets, max_passwords, count, yielded,
                   applyVars, inferVars, optVars, learnVars, fileVars>>

\* if not dynamic_positions: yield ''.join(static_chars); return
MaskYieldStatic ==
    /\ mask_pc = "static"
    /\ yielded' = Append(yielded, PasswordAt(parsed, indices))
    /\ mask_pc' = "done"
    /\ UNCHANGED <<mask, custom_charsets, max_passwords, parsed, total_size, indices,
                   count, applyVars, inferVars, optVars, learnVars, fileVars>>

\* for combination in itertools.product(*charsets): one pass
MaskYield ==
    /\ mask_pc = "product"
    /\ indices # Exhausted
    /\ yielded' = Append(yielded, PasswordAt(parsed, indices))
    /\ count' = count + 1
    /\ IF ReachedLimit(count', max_passwords)
       THEN mask_pc' = "done" /\ UNCHANGED indices
       ELSE mask_pc' = "product" /\ indices' = NextIndices(Charsets(parsed), indices)
    /\ UNCHANGED <<mask, custom_charsets, max_passwords, parsed, total_size,
                   applyVars, inferVars, optVars, learnVars, fileVars>>

\* itertools.product has no further combination: the generator ends
MaskExhausted ==
    /\ mask_pc = "product"
    /\ indices = Exhausted
    /\ mask_pc' = "done"
    /\ UNCHANGED <<mask, custom_charsets, max_passwords, parsed, total_size, indices,
                   count, yielded, applyVars, inferVars, optVars, learnVars, fileVars>>

NextMask == MaskStart \/ MaskYieldStatic \/ MaskYield \/ MaskExhausted

SpecMask == InitMask /\ [][NextMask]_vars

(***************************************************************************)
(* optimize_rule_file as a state machine, called with a test wordlist      *)
(* file: the two loads, the loops and the return of optimize_rules, the    *)
(* write, and a caller that reads the written file with the loader         *)
(***************************************************************************)

MaxLines == 2
MaxLineLen == 2
LineChars == {" ", "#", ":", "r"}
InputFiles == SeqsUpTo(SeqsUpTo(LineChars, MaxLineLen), MaxLines)
WordlistFiles ==
    {<<(<<"a", "b">>)>>,
     <<(<<" ", "a", "b", " ">>), (<<>>), (<<"b", "b">>)>>,
     <<(<<" ">>)>>}

InitFile ==
    /\ input_file \in InputFiles
    /\ test_wordlist \in WordlistFiles
    /\ output_file = None
    /\ file_pc = "load"
    /\ reloaded = None
    /\ ApplyIdle
    /\ InferIdle
    /\ OptIdle
    /\ LearnIdle
    /\ MaskIdle

\* The two files are loaded and optimize_rules is called
FileLoad ==
    /\ file_pc = "load"
    /\ rules' = LoadRules(input_file)
    /\ test_words' = LoadTestWords(test_wordlist)
    /\ opt_pc' = "test"
    /\ file_pc' = "optimize"
    /\ UNCHANGED <<rule_outputs, output_to_rules, optimized, redundant_count, stats,
                   earlier, input_file, test_wordlist, output_file, reloaded,
                   applyVars, inferVars, learnVars, maskVars>>

\* optimize_rules has returned: the file is written and stats returned
FileWrite ==
    /\ file_pc = "optimize"
    /\ opt_pc = "returned"
    /\ output_file' = WrittenLines(optimized, stats)
    /\ file_pc' = "written"
    /\ UNCHANGED <<input_file, test_wordlist, reloaded,
                   applyVars, inferVars, optVars, learnVars, maskVars>>

\* The written file is read with the loader of rule files
FileReload ==
    /\ file_pc = "written"
    /\ reloaded' = LoadRules(output_file)
    /\ file_pc' = "reloaded"
    /\ UNCHANGED <<input_file, test_wordlist, output_file,
                   applyVars, inferVars, optVars, learnVars, maskVars>>

NextFile ==
    \/ FileLoad
    \/ OptTestRules \/ OptSelectRules \/ OptReturn
    \/ FileWrite
    \/ FileReload

SpecFile == InitFile /\ [][NextFile]_vars

(***************************************************************************)
(* The whole model                                                         *)
(***************************************************************************)

Init == InitApply \/ InitInfer \/ InitOpt \/ InitLearn \/ InitMask \/ InitFile
Next ==
    \/ NextApply \/ NextInfer \/ NextOpt \/ NextOptRerun \/ NextLearn \/ NextMask
    \/ NextFile
Spec == Init /\ [][Next]_vars

(***************************************************************************)
(* Properties of the interpreter                                           *)
(***************************************************************************)

\* The rule-text grammar of the specification's parse: every op code is one
\* of the fourteen, and $, ^, @ (one) and s (two) have their operands.
RECURSIVE WellFormedFrom(_, _)
WellFormedFrom(text, k) ==
    IF k >= Len(text) THEN TRUE
    ELSE LET op == text[k + 1]
         IN  IF op \in NullaryOps THEN WellFormedFrom(text, k + 1)
             ELSE IF op \in {"$", "^", "@"} THEN k + 1 < Len(text) /\ WellFormedFrom(text, k + 2)
             ELSE IF op = "s" THEN k + 2 < Len(text) /\ WellFormedFrom(text, k + 3)
             ELSE FALSE
WellFormed(text) == WellFormedFrom(text, 0)

Returned == pc = "returned"

\* C6: applying the rule ':' returns the word unchanged, and so does applying
\* the empty rule text.
C6_Identity ==
    (Returned /\ (rule = <<":">> \/ rule = <<>>)) => result = word

C6_Witness ==
    Returned /\ rule = <<":">> /\ word = <<"a", "B">> /\ result = <<"a", "B">>

\* C7: the ops of a rule text are applied left to right, each on the output
\* of the one before: for well-formed texts P and Q the result of P \o Q on a
\* word is the result of Q on the result of P, and 'c$1$2$3' turns
\* 'password' into 'Password123'.
C7_Composition ==
    Returned =>
        /\ \A k \in 0..Len(rule) :
              LET P == SubSeq(rule, 1, k)
                  Q == SubSeq(rule, k + 1, Len(rule))
              IN  (WellFormed(P) /\ WellFormed(Q)) =>
                      result = ApplySimpleRule(ApplySimpleRule(word, P), Q)
        /\ (word = <<"p", "a", "s", "s", "w", "o", "r", "d">>
            /\ rule = <<"c", "$", "1", "$", "2", "$", "3">>)
               => result = <<"P", "a", "s", "s", "w", "o", "r", "d", "1", "2", "3">>

C7_Witness ==
    /\ Returned
    /\ word = <<"a", "B">>
    /\ rule = <<"$", "1", "c">>
    /\ result = <<"A", "b", "1">>

\* What the specification says one op makes of word w (x, y its operands).
OpMeaning(w, text, out) ==
    LET op == text[1]
        n == Len(w)
        SameLen == Len(out) = n
    IN  CASE op = ":" -> out = w
          [] op = "l" -> SameLen /\ \A k \in 1..n : out[k] = LowerCh(w[k])
          [] op = "u" -> SameLen /\ \A k \in 1..n : out[k] = UpperCh(w[k])
          [] op = "c" -> SameLen /\ \A k \in 1..n :
                            out[k] = IF k = 1 THEN UpperCh(w[k]) ELSE LowerCh(w[k])
          [] op = "C" -> SameLen /\ \A k \in 1..n :
                            out[k] = IF k = 1 THEN LowerCh(w[k]) ELSE UpperCh(w[k])
          [] op = "t" -> SameLen /\ \A k \in 1..n : out[k] = SwapCh(w[k])
          [] op = "r" -> SameLen /\ \A k \in 1..n : out[k] = w[n + 1 - k]
          [] op = "d" -> Len(out) = 2 * n
                         /\ \A k \in 1..n : out[k] = w[k] /\ out[n + k] = w[k]
          [] op = "z" -> IF n = 0 THEN out = <<>>
                         ELSE Len(out) = n + 1 /\ out[1] = w[1]
                              /\ \A k \in 1..n : out[k + 1] = w[k]
          [] op = "Z" -> IF n = 0 THEN out = <<>>
                         ELSE Len(out) = n + 1 /\ out[n + 1] = w[n]
                              /\ \A k \in 1..n : out[k] = w[k]
          [] op = "$" -> Len(out) = n + 1 /\ out[n + 1] = text[2]
                         /\ \A k \in 1..n : out[k] = w[k]
          [] op = "^" -> Len(out) = n + 1 /\ out[1] = text[2]
                         /\ \A k \in 1..n : out[k + 1] = w[k]
          [] op = "s" -> SameLen /\ \A k \in 1..n :
                            out[k] = IF w[k] = text[2] THEN text[3] ELSE w[k]
          [] op = "@" -> out = SelectSeq(w, LAMBDA ch : ch # text[2])

\* C8: each single op computes its specified result on every word, and 'l'
\* turns 'ADMIN' into 'admin'.
C8_OpSemantics ==
    (Returned /\ rule \in SingleOpTexts) =>
        /\ OpMeaning(word, rule, result)
        /\ (word = <<"A", "D", "M", "I", "N">> /\ rule = <<"l">>)
               => result = <<"a", "d", "m", "i", "n">>

C8_Witness ==
    /\ Returned
    /\ rule = <<"c">>
    /\ word = <<"a", "B">>
    /\ result = <<"A", "b">>

\* C9: a rule text with an unknown op code, or with an op whose operand is
\* missing at the end of the text, is rejected (SyntaxError with the failing
\* position and code) and is never executed: no such text runs to the return
\* of a word.
C9_IllFormedRejected ==
    Returned => WellFormed(rule)

\* C10: execution enforces a maximum output length: neither an intermediate
\* nor the final result is longer than the maximum (LengthExceeded is
\* returned instead).
MaxOutputLen == 16
C10_LengthGuard ==
    Len(result) <= MaxOutputLen

(***************************************************************************)
(* Properties of the synthesizer                                           *)
(***************************************************************************)

\* C1: whenever infer_hashcat_rule returns a rule for a non-empty base word
\* and password, executing that rule on the base word yields exactly the
\* password (a transformation it cannot express gives None, not a rule that
\* produces another string).
C1_InferenceSound ==
    infer_pc = "executed" => reproduced = password

\* C3: for every base word and every program of case ops, single-character
\* substitutions and literal affixes, inference on the program's output
\* succeeds, and the inferred rule reproduces that output exactly.
C3_InferenceComplete ==
    (program # None /\ infer_pc \in {"returned", "executed"}) =>
        /\ inferred # None
        /\ infer_pc = "executed" => reproduced = password

(***************************************************************************)
(* Properties of the minimizer                                             *)
(***************************************************************************)

OptReturned == opt_pc = "returned"

\* The outputs of a list of rules on one word
OutputsOn(w, rule_list) ==
    {ApplySimpleRule(w, rule_list[k]) : k \in 1..Len(rule_list)}

\* C2: coverage is preserved: on every word of the sample, the rules returned
\* by optimize_rules produce the same set of outputs as the rules given.
C2_CoveragePreserved ==
    OptReturned =>
        \A k \in 1..Len(test_words) :
            OutputsOn(test_words[k], rules) = OutputsOn(test_words[k], optimized)

\* At least two of the rules given produce identical output over the sample
SomeIdenticalOutput ==
    Cardinality({TestRuleOnWords(rules[k], test_words) : k \in 1..Len(rules)}) < Len(rules)

ScenarioCall == rules = ScenarioRules /\ test_words = ScenarioSample

\* C4 as stated: never more rules than given, and strictly fewer, with
\* reduction_percent > 0, whenever two rules given produce identical output
\* over the sample.
C4_ReducesAsStated ==
    OptReturned =>
        /\ stats.optimized_count <= stats.original_count
        /\ SomeIdenticalOutput =>
              /\ stats.optimized_count < stats.original_count
              /\ stats.reduction_percent > 0

\* C4, amended: never more rules than given; strictly fewer whenever two
\* rules given produce identical output over the sample; reduction_percent,
\* which is rounded to a tenth of a percent, is then above 0 if more than
\* one rule in 2000 was removed; in the scenario ':$1$2$3' is removed and
\* '$1$2$3' kept.
C4_Reduces ==
    OptReturned =>
        /\ Len(optimized) <= Len(rules)
        /\ stats.optimized_count <= stats.original_count
        /\ SomeIdenticalOutput =>
              /\ Len(optimized) < Len(rules)
              /\ stats.optimized_count < stats.original_count
              /\ (2000 * stats.removed_count > stats.original_count)
                     => stats.reduction_percent > 0
        /\ ScenarioCall =>
              /\ ~InParts(<<":", "$", "1", "$", "2", "$", "3">>, optimized)
              /\ InParts(<<"$", "1", "$", "2", "$", "3">>, optimized)
              /\ stats.reduction_percent > 0

C4_Witness ==
    /\ OptReturned
    /\ ScenarioCall
    /\ optimized = <<(<<":">>), (<<"c">>), (<<"u">>), (<<"$", "1", "$", "2", "$", "3">>),
                     (<<"c", "$", "1", "$", "2", "$", "3">>)>>
    /\ stats.removed_count = 2
    /\ stats.reduction_percent = 286

\* C5: a second run of optimize_rules on the same rules and sample returns
\* the identical list (same rules, same order) and identical stats.
C5_Deterministic ==
    (OptReturned /\ earlier # NoReturn) =>
        /\ optimized = earlier.optimized
        /\ stats = earlier.stats

C5_Witness ==
    /\ OptReturned
    /\ earlier # NoReturn
    /\ rules = <<(<<"r">>), (<<"$", "1">>), (<<":">>)>>
    /\ test_words = <<(<<"a", "b">>), (<<"b", "a">>)>>
    /\ optimized = <<(<<":">>), (<<"$", "1">>)>>

\* The signature optimize_rules files a rule under, as a set
SignatureOf(rule_text) == TestRuleOnWords(rule_text, test_words)

\* Two rules are in the same entry of output_to_rules
SameClass(r1, r2) ==
    \E g \in 1..Len(output_to_rules) :
        InParts(r1, output_to_rules[g].rules) /\ InParts(r2, output_to_rules[g].rules)

\* The evaluation of a rule on the sample fails where the specification's
\* executor fails: the text does not parse
EvaluationFails(rule_text) == test_words # <<>> /\ ~WellFormed(rule_text)

\* C11: a rule whose evaluation fails on a sample word has a signature that
\* no other rule has, is merged with no other rule, and is in the list
\* returned.
C11_FailingRuleKept ==
    OptReturned =>
        \A k \in 1..Len(rules) :
            EvaluationFails(rules[k]) =>
                /\ InParts(rules[k], optimized)
                /\ \A j \in 1..Len(rules) :
                       rules[j] # rules[k] =>
                           /\ ~SameClass(rules[j], rules[k])
                           /\ rule_outputs[EntryIndex(rule_outputs, rules[j])].outputs
                                  # rule_outputs[EntryIndex(rule_outputs, rules[k])].outputs

\* The number of ops of a rule text
RECURSIVE OpCountFrom(_, _)
OpCountFrom(text, k) ==
    IF k >= Len(text) THEN 0
    ELSE LET op == text[k + 1]
         IN  1 + OpCountFrom(text, k + (IF op \in {"$", "^", "@"} THEN 2
                                        ELSE IF op = "s" THEN 3 ELSE 1))
OpCount(text) == OpCountFrom(text, 0)

\* The rule kept for entry g of output_to_rules is the least of its rules
\* by Measure, the least by character code among those of equal Measure
KeptIsLeast(g, Measure(_)) ==
    LET kept == optimized[g]
        members == output_to_rules[g].rules
    IN  /\ InParts(kept, members)
        /\ \A m \in 1..Len(members) :
               \/ Measure(kept) < Measure(members[m])
               \/ /\ Measure(kept) = Measure(members[m])
                  /\ (kept = members[m] \/ StrLess(kept, members[m]))

\* C12 as stated: from every class of more than one rule the rule with the
\* fewest op codes is kept, the lexicographically smallest among those with
\* equally few.
C12_FewestOps ==
    OptReturned =>
        /\ Len(optimized) = Len(output_to_rules)
        /\ \A g \in 1..Len(output_to_rules) :
               Len(output_to_rules[g].rules) > 1 => KeptIsLeast(g, OpCount)

\* C12, amended: from every class of more than one rule the rule with the
\* shortest text (fewest characters, operands included) is kept, the
\* smallest by character code among those of equal length.
C12_ShortestText ==
    OptReturned =>
        /\ Len(optimized) = Len(output_to_rules)
        /\ \A g \in 1..Len(output_to_rules) :
               Len(output_to_rules[g].rules) > 1 => KeptIsLeast(g, Len)

C12_Witness ==
    /\ OptReturned
    /\ rules = <<(<<"s", "a", "a">>), (<<":", ":">>)>>
    /\ optimized = <<(<<":", ":">>)>>

\* The signatures that more than one of the rules given has
SharedSignatures ==
    {sig \in {SignatureOf(rules[k]) : k \in 1..Len(rules)} :
        Cardinality({k \in 1..Len(rules) : SignatureOf(rules[k]) = sig}) > 1}

\* The counts of the stats are those of the call
CountsRight ==
    /\ stats.original_count = Len(rules)
    /\ stats.optimized_count = Len(optimized)
    /\ stats.removed_count = stats.original_count - stats.optimized_count
    /\ stats.redundant_groups = Cardinality(SharedSignatures)

\* C13 as stated: the counts are right and the reduction percentage is
\* 1 - optimized/original (reduction_percent is held in tenths, so the value
\* v = reduction_percent/10 is to satisfy v * original = original - optimized).
C13_StatsAsStated ==
    OptReturned =>
        /\ CountsRight
        /\ stats.reduction_percent * stats.original_count
               = 10 * (stats.original_count - stats.optimized_count)

\* C13, amended: the counts are right; the reduction percentage is
\* 100 * (1 - optimized/original) rounded to one decimal (it is within 0.05
\* of that value and a whole number of tenths), and 0 for an empty rule list.
C13_Stats ==
    OptReturned =>
        /\ CountsRight
        /\ rules = <<>> => stats.reduction_percent = 0
        /\ rules # <<>> =>
               LET off == stats.reduction_percent * stats.original_count
                              - 1000 * stats.removed_count
               IN  2 * off <= stats.original_count /\ -2 * off <= stats.original_count

C13_Witness ==
    /\ OptReturned
    /\ rules = <<(<<":">>), (<<":">>), (<<":">>)>>
    /\ stats.removed_count = 2
    /\ stats.redundant_groups = 1
    /\ stats.reduction_percent = 667

\* C15: optimize_rules does not mutate its arguments: no step of the call
\* changes the rule list or the sample list (the list returned is built in
\* optimized, a list of its own).
C15_InputsNotMutated ==
    [][rules' = rules /\ test_words' = test_words]_vars

C15_Witness ==
    /\ OptReturned
    /\ rules = <<(<<":", "$", "1">>), (<<"$", "1">>)>>
    /\ test_words = <<(<<"a", "b">>)>>
    /\ optimized = <<(<<"$", "1">>)>>

\* Every output of a rule over the sample, the empty string included
AllOutputs(rule_text) ==
    {ApplySimpleRule(test_words[m], rule_text) : m \in 1..Len(test_words)}

C18_OnePerSignature ==
    OptReturned =>
        /\ \A k \in 1..Len(optimized) : InParts(optimized[k], rules)
        /\ \A j, k \in 1..Len(optimized) :
               j # k => SignatureOf(optimized[j]) # SignatureOf(optimized[k])
        /\ \A k \in 1..Len(rules) :
               \E j \in 1..Len(optimized) : SignatureOf(optimized[j]) = SignatureOf(rules[k])

C18_Witness ==
    /\ OptReturned
    /\ rules = <<(<<"c">>), (<<":">>), (<<"c">>)>>
    /\ test_words = <<(<<"a", "b">>)>>
    /\ optimized = <<(<<"c">>), (<<":">>)>>

\* The de-leet table of the specification: the plain letter a leet character
\* stands for
PlainOf(c) ==
    CASE c \in {"@", "4"} -> "a"
      [] c = "3" -> "e"
      [] c \in {"1", "!"} -> "i"
      [] c = "0" -> "o"
      [] c \in {"$", "5"} -> "s"
      [] c = "7" -> "t"
      [] OTHER -> c

InferReturned == infer_pc \in {"returned", "executed"}

\* C19: for a non-empty base word and password, None is returned exactly when
\* the base word occurs neither in the password, compared without case, nor
\* in the password with its leet characters replaced by their plain letters
\* (@ 4 -> a, 3 -> e, 1 ! -> i, 0 -> o, $ 5 -> s, 7 -> t).
C19_NotFoundExactly ==
    (InferReturned /\ base_word # <<>> /\ password # <<>>) =>
        LET pwd_lower == Lower(password)
            plain == [k \in 1..Len(pwd_lower) |-> PlainOf(pwd_lower[k])]
        IN  inferred = None
                <=> /\ Find(pwd_lower, Lower(base_word)) = -1
                    /\ Find(plain, Lower(base_word)) = -1

\* The case ops among the parts of the inferred rule
CaseOpsIn(parts) ==
    {k \in 1..Len(parts) : parts[k] \in {<<"c">>, <<"C">>, <<"u">>, <<"l">>, <<"t">>}}

\* The matched span of the password is the base word, case included
ExactCaseMatch ==
    Slice(password, base_start, base_start + Len(base_word)) = base_word

\* C20: the inferred rule holds at most one case op, and none when the
\* matched span of the password has exactly the case of the base word.
C20_CaseOp ==
    (InferReturned /\ inferred # None) =>
        /\ Cardinality(CaseOpsIn(rule_parts)) <= 1
        /\ ExactCaseMatch => CaseOpsIn(rule_parts) = {}

(***************************************************************************)
(* Properties of dictionary matching                                       *)
(***************************************************************************)

\* The places in the dictionary of the non-empty words that text contains
ContainedIn(text) ==
    {d \in 1..Len(dictionary) : dictionary[d] # <<>> /\ Contains(text, dictionary[d])}

\* The longest dictionary word that text contains, the first of the longest
LongestIn(text) ==
    LET found == ContainedIn(text)
        best == CHOOSE d \in found :
                    \A e \in found :
                        \/ Len(dictionary[e]) < Len(dictionary[d])
                        \/ Len(dictionary[e]) = Len(dictionary[d]) /\ d <= e
    IN  dictionary[best]

\* C14 as stated: after the pass for a password, the base word chosen for it
\* is the longest dictionary word the password contains, the first in the
\* dictionary among the longest; none is chosen where it contains none.
C14_LongestContained ==
    (learn_pc = "loop" /\ learn_k > 0) =>
        LET pwd == passwords[learn_k]
        IN  /\ ContainedIn(pwd) # {} => best_match = LongestIn(pwd)
            /\ (ContainedIn(pwd) = {} /\ Len(pwd) >= 3) => best_match = None

\* What the pass for pwd does to the Counter when base is the base word used
CountedWith(base, pwd) ==
    LET inferred_rule == InferHashcatRule(base, pwd)
    IN  IF inferred_rule \in {None, <<":">>} THEN rule_counter' = rule_counter
        ELSE rule_counter' = CountRule(rule_counter, inferred_rule)

\* C14, amended: a password of fewer than 3 characters is skipped; for any
\* other password the base word is the longest dictionary word contained in
\* the lower-cased password (so a dictionary word with an upper-case letter
\* never matches), the first in the dictionary among the longest, and the
\* rule counted is the one inferred from that base word; where no word is
\* contained nothing is inferred.
C14_LongestInLowered ==
    [][(learn_k' = learn_k + 1) =>
          LET pwd == passwords[learn_k']
              low == Lower(pwd)
          IN  IF Len(pwd) < 3
              THEN best_match' = best_match /\ rule_counter' = rule_counter
              ELSE IF ContainedIn(low) = {}
                   THEN best_match' = None /\ rule_counter' = rule_counter
              ELSE best_match' = LongestIn(low) /\ CountedWith(LongestIn(low), pwd)]_vars

C14_Witness ==
    /\ learn_pc = "loop"
    /\ learn_k = 1
    /\ passwords[1] = <<"A", "B", "c", "1">>
    /\ dictionary = <<(<<"a", "b">>), (<<"b", "c">>)>>
    /\ best_match = <<"a", "b">>
    /\ matched_count = 1

(***************************************************************************)
(* Properties of mask generation                                           *)
(***************************************************************************)

MaskDone == mask_pc = "done"

\* The mask has a dynamic position
HasDynamic == DynamicPositions(parsed) # <<>>

\* The number of positions of the mask: a ?x placeholder is one position
MaskPositions == Len(mask) - Cardinality({k \in 1..Len(mask) : mask[k] = "?"})

\* C16: for a mask with a dynamic position and a limit max_passwords = n >= 1,
\* generate_from_mask yields exactly min(n, estimate_mask_size(mask))
\* passwords, each of one character per mask position; estimate_mask_size is
\* the product of the sizes of the charsets of the dynamic positions, custom
\* charsets included (67600 for ?l?l?d?d without custom charsets, 90 for ?1?1?d with 1 = abc).
C16_MaskCount ==
    (MaskDone /\ HasDynamic /\ max_passwords >= 1) =>
        LET size == EstimateMaskSize(mask, custom_charsets)
        IN  /\ Len(yielded) = (IF max_passwords < size THEN max_passwords ELSE size)
            /\ \A k \in 1..Len(yielded) : Len(yielded[k]) = MaskPositions
            /\ (mask = <<"?", "l", "?", "l", "?", "d", "?", "d">> /\ custom_charsets = <<>>)
                   => size = 67600
            /\ (mask = <<"?", "1", "?", "1", "?", "d">>
                /\ custom_charsets = <<[key |-> "1", value |-> <<"a", "b", "c">>]>>)
                   => size = 90

C16_Witness ==
    /\ MaskDone
    /\ mask = <<"?", "1", "?", "1", "?", "d">>
    /\ custom_charsets = <<[key |-> "1", value |-> <<"a", "b", "c">>]>>
    /\ max_passwords = 18
    /\ Len(yielded) = 18
    /\ yielded[1] = <<"a", "a", "0">>
    /\ yielded[18] = <<"a", "b", "7">>

(***************************************************************************)
(* Further properties of the synthesizer                                   *)
(***************************************************************************)

\* The places of the substitute ops among the parts of the inferred rule
SubstOpsIn(parts) ==
    {k \in 1..Len(parts) : Len(parts[k]) = 3 /\ parts[k][1] = "s"}

\* The first place (1-based) of the matched span where the base word has the
\* character x and the password another one
FirstSubstituted(x) ==
    LET base_lower == Lower(base_word)
        span == Slice(Lower(password), base_start, base_start + Len(base_word))
        at == {q \in 1..Len(span) : base_lower[q] = x /\ span[q] # x}
    IN  IF at = {} THEN 0 ELSE CHOOSE q \in at : \A m \in at : q <= m

\* C21: the inferred rule holds at most one substitute op per source
\* character: the substitute ops come in the order of the first place their
\* source character is substituted at, and no two of them have the same
\* source character.
C21_OneSubstPerChar ==
    (InferReturned /\ inferred # None) =>
        \A j, k \in SubstOpsIn(rule_parts) :
            /\ j # k => rule_parts[j][2] # rule_parts[k][2]
            /\ j < k => FirstSubstituted(rule_parts[j][2]) < FirstSubstituted(rule_parts[k][2])

\* C22: when the match starts at k > 0 the rule begins with one prepend op
\* per character of password[0..k), last character first, and executing the
\* inferred rule on the base word gives a string that begins with
\* password[0..k).
C22_PrefixReproduced ==
    (infer_pc = "executed" /\ base_start > 0) =>
        /\ Len(rule_parts) >= base_start
        /\ \A k \in 1..base_start : rule_parts[k] = <<"^", password[base_start + 1 - k]>>
        /\ Len(reproduced) >= base_start
        /\ SubSeq(reproduced, 1, base_start) = SubSeq(password, 1, base_start)

\* C23: the characters of the password after the matched span are the append
\* ops that end the inferred rule, one per character in their order; the
\* rule inferred for 'admin' and 'Admin2024!' is 'c$2$0$2$4$!'.
C23_SuffixAppended ==
    (InferReturned /\ inferred # None) =>
        LET suffix == Slice(password, base_start + Len(base_word), Len(password))
            n == Len(suffix)
            before == Len(rule_parts) - n
        IN  /\ before >= 0
            /\ \A k \in 1..n : rule_parts[before + k] = <<"$", suffix[k]>>
            /\ n > 0 => /\ Len(inferred) >= 2 * n
                        /\ \A k \in 1..n :
                               /\ inferred[Len(inferred) - 2 * (n - k) - 1] = "$"
                               /\ inferred[Len(inferred) - 2 * (n - k)] = suffix[k]
            /\ (base_word = <<"a", "d", "m", "i", "n">>
                /\ password = <<"A", "d", "m", "i", "n", "2", "0", "2", "4", "!">>)
                   => inferred = <<"c", "$", "2", "$", "0", "$", "2", "$", "4", "$", "!">>

C23_Witness ==
    /\ InferReturned
    /\ base_word = <<"a", "d", "m", "i", "n">>
    /\ password = <<"A", "d", "m", "i", "n", "2", "0", "2", "4", "!">>
    /\ inferred = <<"c", "$", "2", "$", "0", "$", "2", "$", "4", "$", "!">>

(***************************************************************************)
(* Further properties of the interpreter                                   *)
(***************************************************************************)

\* The op codes that refer to a position of the word
PositionOps == {"c", "C", "z", "Z"}

OperandsOf(op) == IF op \in {"$", "^", "@"} THEN 1 ELSE IF op = "s" THEN 2 ELSE 0

\* The execution in which every op consumes itself and its operands, and a
\* last op without its full operands ends the rule with the word as it is
RECURSIVE ConsumingRun(_, _, _)
ConsumingRun(w, text, k) ==
    IF k >= Len(text) THEN w
    ELSE IF k + OperandsOf(text[k + 1]) >= Len(text) THEN w
    ELSE ConsumingRun(ApplyOp(w, text, k).result, text, k + OperandsOf(text[k + 1]) + 1)

\* C25: every op code consumes itself and its operand characters: no operand
\* of $, ^, s or @ is executed as an op code, and when the last op lacks its
\* full operands the characters that remain leave the word unchanged.
C25_OperandsConsumed ==
    Returned => result = ConsumingRun(word, rule, 0)

(***************************************************************************)
(* Further properties of the minimizer                                     *)
(***************************************************************************)

\* C26: a rule whose evaluation fails does not disturb the others: the call
\* still returns, and every other rule is evaluated and grouped as it is
\* without the failing rule, so its class is represented in the list returned
\* by a rule whose evaluation did not fail.
C26_FailureIsolated ==
    /\ opt_pc \in {"test", "select", "stats"} => ENABLED NextOpt
    /\ OptReturned =>
           \A k \in 1..Len(rules) :
               ~EvaluationFails(rules[k]) =>
                   \E j \in 1..Len(optimized) :
                       /\ ~EvaluationFails(optimized[j])
                       /\ SignatureOf(optimized[j]) = SignatureOf(rules[k])

\* The rules of a list, as a set
RulesOf(rule_list) == {rule_list[k] : k \in 1..Len(rule_list)}

\* C28: optimize_rules is idempotent: run on the list it returned, with the
\* same sample, it returns the same set of rules and removes nothing.
C28_Idempotent ==
    (OptReturned /\ earlier # NoReturn /\ rules = earlier.optimized) =>
        /\ RulesOf(optimized) = RulesOf(earlier.optimized)
        /\ stats.removed_count = 0

C28_Witness ==
    /\ OptReturned
    /\ earlier.rules = <<(<<"r">>), (<<"$", "1">>), (<<":">>)>>
    /\ test_words = <<(<<"a", "b">>), (<<"b", "a">>)>>
    /\ rules = <<(<<":">>), (<<"$", "1">>)>>
    /\ optimized = <<(<<":">>), (<<"$", "1">>)>>
    /\ stats.removed_count = 0

\* Two lists hold the same rules the same number of times
IsPermutation(a, b) ==
    /\ Len(a) = Len(b)
    /\ \A x \in RulesOf(a) \cup RulesOf(b) :
           Cardinality({k \in 1..Len(a) : a[k] = x}) = Cardinality({k \in 1..Len(b) : b[k] = x})

\* C29: the set of rules returned and the stats do not depend on the order
\* of the rules given: for the same rules in another order and the same
\* sample, the rules returned are the same set and the stats are equal.
C29_OrderIndependent ==
    (OptReturned /\ earlier # NoReturn /\ IsPermutation(rules, earlier.rules)) =>
        /\ RulesOf(optimized) = RulesOf(earlier.optimized)
        /\ stats = earlier.stats

C29_Witness ==
    /\ OptReturned
    /\ earlier.rules = <<(<<"r">>), (<<"$", "1">>), (<<":">>)>>
    /\ rules = <<(<<"$", "1">>), (<<":">>), (<<"r">>)>>
    /\ test_words = <<(<<"a", "b">>), (<<"b", "a">>)>>
    /\ earlier.optimized = <<(<<":">>), (<<"$", "1">>)>>
    /\ optimized = <<(<<"$", "1">>), (<<":">>)>>

(***************************************************************************)
(* Further properties of dictionary matching                               *)
(***************************************************************************)

\* No password of the corpus is learned from: each is shorter than 3 or
\* holds no dictionary word
NothingLearnable ==
    \A k \in 1..Len(passwords) :
        \/ Len(passwords[k]) < 3
        \/ BestMatch(dictionary, passwords[k]) = None

\* C30: learn_rules_from_passwords returns normally for every corpus, the
\* empty one included, and returns the empty list when the corpus is empty
\* or none of its passwords is long enough and holds a dictionary word.
C30_ReturnsNormally ==
    /\ learn_pc # "raised"
    /\ (learn_pc = "returned" /\ NothingLearnable) => top_rules = <<>>

(***************************************************************************)
(* Properties of rule files                                                *)
(***************************************************************************)

\* C27: the file written is a block of '#' comment lines followed by the
\* rules returned, one per line, and reading it back with the loader of rule
\* files gives exactly the list of rules returned, in order.
C27_RoundTrip ==
    /\ file_pc \in {"written", "reloaded"} =>
           \E h \in 1..Len(output_file) :
               /\ \A k \in 1..h : StartsWithHash(output_file[k])
               /\ SubSeq(output_file, h + 1, Len(output_file)) = optimized
    /\ file_pc = "reloaded" => reloaded = optimized

====
